---------------------------- MODULE Spec2Model ----------------------------
(***************************************************************************)
(* A model of rumble.py: the Motor class (a stepper-motor axis driven      *)
(* through a LabJack T4 by register reads and writes) and the two axes     *)
(* global_init builds on one device handle.                                *)
(*                                                                         *)
(* Every method of Motor is an operator from a call context to a call      *)
(* context, written statement by statement after the Python source.  The   *)
(* context carries the device registers, the attributes of the Motor       *)
(* instance, the register calls issued so far and the exception raised,    *)
(* if any: once an exception is raised every later statement is skipped,   *)
(* which is how it propagates to the caller.  An action of the model is    *)
(* one complete method call.                                               *)
(***************************************************************************)
EXTENDS Integers, Sequences, FiniteSets, TLC

VARIABLES
    dev,        \* the registers of the device behind the shared handle
    motor,      \* motor[a]: the attributes of Motor instance a
    disk,       \* the configuration file that save opens and writes
    call        \* the method call that produced this state

\* All the variables.  The name of the call comes first so that two states
\* are told apart by it before values of different calls are compared.
vars == <<call.op, dev, motor, disk, call>>

-----------------------------------------------------------------------------
(***************************************************************************)
(* Numbers.  Python integers are unbounded and the roll value is compared  *)
(* with 0xFFFFFFFF; the model keeps such values exactly as two limbs       *)
(* <<hi, lo>> standing for hi * 2^16 + lo, with 0 <= lo < 2^16.            *)
(***************************************************************************)
Limb == 2^16

BigOf(n) == <<n \div Limb, n % Limb>>

BigLe(x, y) == x[1] < y[1] \/ (x[1] = y[1] /\ x[2] <= y[2])

BigLt(x, y) == x[1] < y[1] \/ (x[1] = y[1] /\ x[2] < y[2])

BigSucc(x) == IF x[2] + 1 = Limb THEN <<x[1] + 1, 0>> ELSE <<x[1], x[2] + 1>>

\* x * k for a small natural k
BigMulInt(x, k) == <<x[1] * k + (x[2] * k) \div Limb, (x[2] * k) % Limb>>

\* floor(x / p) for a natural p > 0 (long division, one limb at a time)
BigDivInt(x, p) == <<x[1] \div p, ((x[1] % p) * Limb + x[2]) \div p>>

\* x >> 1, which is also x // 2
BigShr1(x) == <<x[1] \div 2, (x[1] % 2) * (Limb \div 2) + x[2] \div 2>>

\* 0xFFFFFFFF
UINT32_MAX == <<Limb - 1, Limb - 1>>

Abs(n) == IF n < 0 THEN -n ELSE n

\* The 80e6 of set_clock_hz and get_clock_hz: the T4 system clock in Hz.
ClockHz == 80000000

\* None, and a value that is not None
None == <<>>

Some(v) == <<v>>

-----------------------------------------------------------------------------
(***************************************************************************)
(* The device.  A register is named by a tuple: <<name>> for a register    *)
(* of the whole device, <<template, pin>> for a register of one DIO line   *)
(* (f'DIO{pin}_EF_CONFIG_C' is <<"DIO#_EF_CONFIG_C", pin>>).  The empty    *)
(* string (a register attribute not yet assigned) is <<>>.  A name that    *)
(* is no register of the device makes the ljm call fail.                   *)
(***************************************************************************)
\* The DIO lines of the device are 0 .. MaxPin.
MaxPin == 2

DevPins == 0 .. MaxPin

PinTemplates == {"DIO#", "DIO#_EF_ENABLE", "DIO#_EF_INDEX", "DIO#_EF_CONFIG_A",
                 "DIO#_EF_CONFIG_B", "DIO#_EF_CONFIG_C"}

ClockRegs == {<<"DIO_EF_CLOCK0_ENABLE">>, <<"DIO_EF_CLOCK0_ROLL_VALUE">>,
              <<"DIO_EF_CLOCK0_DIVISOR">>}

DevRegs == ClockRegs \cup {<<"DIO_DIRECTION">>, <<"DIO_ANALOG_ENABLE">>}
               \cup {<<t, n>> : t \in PinTemplates, n \in DevPins}

\* Registers that hold a roll-sized value are kept as two limbs.
BigRegs == {<<"DIO_EF_CLOCK0_ROLL_VALUE">>} \cup {<<"DIO#_EF_CONFIG_A", n>> : n \in DevPins}

\* Registers that are written a pulse count hold a number <<n, d>>, like
\* the positions (see Rat below).
RatRegs == {<<"DIO#_EF_CONFIG_C", n>> : n \in DevPins}

\* One register call of a method, as the io log keeps it.
IO(k, name, value, ok) == [k |-> k, reg |-> name, val |-> value, ok |-> ok]

\* The context in which a method of instance a starts.  failAt is the
\* position of the register call that fails with a device error (0: none).
Ctx(a, failAt) ==
    [dev |-> dev, m |-> motor[a], disk |-> disk, io |-> <<>>, err |-> "",
     failAt |-> failAt, rd |-> 0, ret |-> None]

Failed(c) == c.err # ""

\* raise e: the method, and every method that called it, returns nothing
Raise(c, e) == IF Failed(c) THEN c ELSE [c EXCEPT !.err = e, !.ret = None]

Return(c, v) == IF Failed(c) THEN c ELSE [c EXCEPT !.ret = Some(v)]

\* ljm.eWriteName(handle, name, value)
eWriteName(c, name, value) ==
    IF Failed(c) THEN c
    ELSE IF Len(c.io) + 1 = c.failAt \/ name \notin DevRegs
         THEN Raise([c EXCEPT !.io = Append(@, IO("w", name, value, FALSE))],
                    "LJMError")
         ELSE [c EXCEPT !.io = Append(@, IO("w", name, value, TRUE)),
                        !.dev[name] = value]

\* ljm.eReadName(handle, name): the value read is left in c.rd
eReadName(c, name) ==
    IF Failed(c) THEN c
    ELSE IF Len(c.io) + 1 = c.failAt \/ name \notin DevRegs
         THEN Raise([c EXCEPT !.io = Append(@, IO("r", name, 0, FALSE))],
                    "LJMError")
         ELSE [c EXCEPT !.io = Append(@, IO("r", name, c.dev[name], TRUE)),
                        !.rd = c.dev[name]]

-----------------------------------------------------------------------------
(***************************************************************************)
(* The clock.                                                              *)
(***************************************************************************)
\* get_clock reporting a roll one above the one it read
get_clock_RollPlusOne(c) ==
    LET c1 == eReadName(c, <<"DIO_EF_CLOCK0_DIVISOR">>)
        c2 == eReadName(c1, <<"DIO_EF_CLOCK0_ROLL_VALUE">>)
    IN  IF Failed(c2) THEN c2 ELSE [c2 EXCEPT !.ret = Some(<<BigSucc(c2.rd), c1.rd>>)]

\* Motor.get_clock: reads the divisor, then the roll; returns <<roll, divisor>>
get_clock(c) ==
    LET c1 == eReadName(c, <<"DIO_EF_CLOCK0_DIVISOR">>)
        c2 == eReadName(c1, <<"DIO_EF_CLOCK0_ROLL_VALUE">>)
    IN  IF Failed(c2) THEN c2 ELSE [c2 EXCEPT !.ret = Some(<<c2.rd, c1.rd>>)]

\* set_clock enabling the clock before the divisor is written
set_clock_EnableEarly(c, roll, divisor) ==
    LET c1 == eWriteName(c, <<"DIO_EF_CLOCK0_ENABLE">>, 0)
        c2 == eWriteName(c1, <<"DIO_EF_CLOCK0_ROLL_VALUE">>, roll)
        c3 == eWriteName(c2, <<"DIO_EF_CLOCK0_ENABLE">>, 1)
    IN  eWriteName(c3, <<"DIO_EF_CLOCK0_DIVISOR">>, divisor)

\* Motor.set_clock(roll, divisor)
set_clock(c, roll, divisor) ==
    LET c1 == eWriteName(c, <<"DIO_EF_CLOCK0_ENABLE">>, 0)
        c2 == eWriteName(c1, <<"DIO_EF_CLOCK0_ROLL_VALUE">>, roll)
        c3 == eWriteName(c2, <<"DIO_EF_CLOCK0_DIVISOR">>, divisor)
    IN  eWriteName(c3, <<"DIO_EF_CLOCK0_ENABLE">>, 1)

\* the loop of set_clock_hz with divisor += 1 for divisor <<= 1
RECURSIVE RollLoop_DivisorPlusOne(_, _)
RollLoop_DivisorPlusOne(roll, divisor) ==
    IF ~BigLe(roll, UINT32_MAX)
    THEN RollLoop_DivisorPlusOne(BigShr1(roll), divisor + 1)
    ELSE <<roll, divisor>>

\* The loop of set_clock_hz: while roll > 0xFFFFFFFF: roll >>= 1; divisor <<= 1
RECURSIVE RollLoop(_, _)
RollLoop(roll, divisor) ==
    IF ~BigLe(roll, UINT32_MAX)
    THEN RollLoop(BigShr1(roll), divisor * 2)
    ELSE <<roll, divisor>>

\* Motor.set_clock_hz(rate), the rate being the rational rate[1] / rate[2]:
\* roll = int(80e6 / abs(rate)), which divides by zero when rate is 0.
set_clock_hz(c, rate) ==
    IF rate[1] = 0 THEN Raise(c, "ZeroDivisionError")
    ELSE LET roll == BigDivInt(BigMulInt(BigOf(ClockHz), rate[2]), Abs(rate[1]))
             rd == RollLoop(roll, 1)
         IN  set_clock(c, rd[1], rd[2])

-----------------------------------------------------------------------------
(***************************************************************************)
(* Positions and calibration values are Python numbers (int or float).     *)
(* The model keeps them as rationals <<n, d>> with d > 0, so that a        *)
(* division by the calibration slope followed by int() truncates as the    *)
(* code does.                                                              *)
(***************************************************************************)
Rat(n) == <<n, 1>>

RECURSIVE GCD(_, _)
GCD(x, y) == IF y = 0 THEN x ELSE GCD(y, x % y)

\* lowest terms, so that equal numbers are equal values
RatNorm(x) ==
    IF x[2] = 1 THEN x
    ELSE LET g == GCD(Abs(x[1]), x[2]) IN <<x[1] \div g, x[2] \div g>>

RatAdd(x, y) == RatNorm(<<x[1] * y[2] + y[1] * x[2], x[2] * y[2]>>)

RatSub(x, y) == RatNorm(<<x[1] * y[2] - y[1] * x[2], x[2] * y[2]>>)

RatMul(x, y) == RatNorm(<<x[1] * y[1], x[2] * y[2]>>)

\* x / y for y # 0, the denominator kept positive
RatDiv(x, y) ==
    IF y[1] > 0 THEN RatNorm(<<x[1] * y[2], x[2] * y[1]>>)
    ELSE RatNorm(<<-(x[1] * y[2]), -(x[2] * y[1])>>)

RatLe(x, y) == x[1] * y[2] <= y[1] * x[2]

RatLt(x, y) == x[1] * y[2] < y[1] * x[2]

RatAbs(x) == <<Abs(x[1]), x[2]>>

\* int(x): truncation toward zero
IntOf(x) == IF x[1] >= 0 THEN x[1] \div x[2] ELSE -((-x[1]) \div x[2])

Min(x, y) == IF x <= y THEN x ELSE y

Max(x, y) == IF x >= y THEN x ELSE y

\* mask | (1 << n)
SetBit(mask, n) == IF (mask \div 2^n) % 2 = 1 THEN mask ELSE mask + 2^n

\* mask & (0xFFFFFFFF ^ (1 << n)), for a mask below 2^32
ClearBit(mask, n) == IF (mask \div 2^n) % 2 = 1 THEN mask - 2^n ELSE mask

-----------------------------------------------------------------------------
(***************************************************************************)
(* The Motor instance.                                                     *)
(***************************************************************************)
\* Motor.__init__
MotorInit ==
    [invert |-> FALSE,
     dir_pin |-> -1, dir_reg |-> <<>>,
     pulse_pin |-> -1, pulse_reg |-> <<>>,
     home_pin |-> -1, home_reg |-> <<>>,
     counts |-> Rat(0),
     cal_zero |-> Rat(0), cal_slope |-> Rat(1), cal_units |-> "counts",
     lim_upper |-> None, lim_lower |-> None]

\* self.<field> = value
SetAttr(c, field, value) ==
    IF Failed(c) THEN c ELSE [c EXCEPT !.m[field] = value]

\* falling off the end of a method: it returns None
ReturnNone(c) == IF Failed(c) THEN c ELSE [c EXCEPT !.ret = None]

\* set_pins building the mask anew instead of from the one it read
set_pins_FreshMask(c, dir_pin, pulse_pin, home_pin, invert) ==
    LET a1 == SetAttr(c, "dir_pin", dir_pin)
        a2 == SetAttr(a1, "dir_reg", <<"DIO#", dir_pin>>)
        a3 == SetAttr(a2, "pulse_pin", pulse_pin)
        a4 == SetAttr(a3, "pulse_reg", <<"DIO#_EF_CONFIG_C", pulse_pin>>)
        a5 == SetAttr(a4, "invert", invert)
        \* Get the current IO mask
        r1 == eReadName(a5, <<"DIO_DIRECTION">>)
        \* 1 << n raises ValueError for a negative n; pulse first, then dir
        s1 == IF pulse_pin < 0 \/ dir_pin < 0 THEN Raise(r1, "ValueError") ELSE r1
        mask1 == SetBit(SetBit(0, pulse_pin), dir_pin)
        h1 == IF home_pin >= 0
              THEN SetAttr(SetAttr(s1, "home_pin", home_pin),
                           "home_reg", <<"DIO#", home_pin>>)
              ELSE SetAttr(SetAttr(s1, "home_pin", -1), "home_reg", <<>>)
        iomask == IF home_pin >= 0 THEN ClearBit(mask1, home_pin) ELSE mask1
        \* Figure out the timing parameters
        g1 == get_clock(h1)
        roll == g1.ret[1][1]
        w1 == eWriteName(g1, <<"DIO_ANALOG_ENABLE">>, 15)
        w2 == eWriteName(w1, <<"DIO_DIRECTION">>, iomask)
        w3 == eWriteName(w2, <<"DIO#", dir_pin>>, 0)
        w4 == eWriteName(w3, <<"DIO#_EF_ENABLE", pulse_pin>>, 0)
        w5 == eWriteName(w4, <<"DIO#_EF_INDEX", pulse_pin>>, 2)
        w6 == eWriteName(w5, <<"DIO#_EF_CONFIG_B", pulse_pin>>, 0)
        w7 == eWriteName(w6, <<"DIO#_EF_CONFIG_A", pulse_pin>>, BigShr1(roll))
        w8 == eWriteName(w7, <<"DIO#_EF_CONFIG_C", pulse_pin>>, <<1, 1>>)
        w9 == eWriteName(w8, <<"DIO#", pulse_pin>>, 0)
        w10 == eWriteName(w9, <<"DIO#_EF_ENABLE", pulse_pin>>, 1)
        \* Undo the step
        w11 == eWriteName(w10, w10.m.dir_reg, 1)
        w12 == eWriteName(w11, w11.m.pulse_reg, <<1, 1>>)
    IN  ReturnNone(w12)

\* Motor.set_pins(dir_pin, pulse_pin, home_pin, invert)
set_pins(c, dir_pin, pulse_pin, home_pin, invert) ==
    LET a1 == SetAttr(c, "dir_pin", dir_pin)
        a2 == SetAttr(a1, "dir_reg", <<"DIO#", dir_pin>>)
        a3 == SetAttr(a2, "pulse_pin", pulse_pin)
        a4 == SetAttr(a3, "pulse_reg", <<"DIO#_EF_CONFIG_C", pulse_pin>>)
        a5 == SetAttr(a4, "invert", invert)
        \* Get the current IO mask
        r1 == eReadName(a5, <<"DIO_DIRECTION">>)
        \* 1 << n raises ValueError for a negative n; pulse first, then dir
        s1 == IF pulse_pin < 0 \/ dir_pin < 0 THEN Raise(r1, "ValueError") ELSE r1
        mask1 == SetBit(SetBit(r1.rd, pulse_pin), dir_pin)
        h1 == IF home_pin >= 0
              THEN SetAttr(SetAttr(s1, "home_pin", home_pin),
                           "home_reg", <<"DIO#", home_pin>>)
              ELSE SetAttr(SetAttr(s1, "home_pin", -1), "home_reg", <<>>)
        iomask == IF home_pin >= 0 THEN ClearBit(mask1, home_pin) ELSE mask1
        \* Figure out the timing parameters
        g1 == get_clock(h1)
        roll == g1.ret[1][1]
        w1 == eWriteName(g1, <<"DIO_ANALOG_ENABLE">>, 15)
        w2 == eWriteName(w1, <<"DIO_DIRECTION">>, iomask)
        w3 == eWriteName(w2, <<"DIO#", dir_pin>>, 0)
        w4 == eWriteName(w3, <<"DIO#_EF_ENABLE", pulse_pin>>, 0)
        w5 == eWriteName(w4, <<"DIO#_EF_INDEX", pulse_pin>>, 2)
        w6 == eWriteName(w5, <<"DIO#_EF_CONFIG_B", pulse_pin>>, 0)
        w7 == eWriteName(w6, <<"DIO#_EF_CONFIG_A", pulse_pin>>, BigShr1(roll))
        w8 == eWriteName(w7, <<"DIO#_EF_CONFIG_C", pulse_pin>>, <<1, 1>>)
        w9 == eWriteName(w8, <<"DIO#", pulse_pin>>, 0)
        w10 == eWriteName(w9, <<"DIO#_EF_ENABLE", pulse_pin>>, 1)
        \* Undo the step
        w11 == eWriteName(w10, w10.m.dir_reg, 1)
        w12 == eWriteName(w11, w11.m.pulse_reg, <<1, 1>>)
    IN  ReturnNone(w12)

\* Motor.get_clock_hz: 80e6 / divisor / roll, kept as the fraction
\* <<80e6, divisor * roll>>; either division may be by zero.
get_clock_hz(c) ==
    LET g == get_clock(c)
        roll == g.ret[1][1]
        divisor == g.ret[1][2]
    IN  IF Failed(g) THEN g
        ELSE IF divisor = 0 \/ roll = BigOf(0) THEN Raise(g, "ZeroDivisionError")
        ELSE Return(g, <<ClockHz, BigMulInt(roll, divisor)>>)

\* increment doing its bookkeeping before it writes the registers
increment_CountsFirst(c, value, block) ==
    LET m == c.m
        v0 == Rat(IntOf(value))
        direction == v0[1] > 0
        v == IF direction
             THEN IF m.lim_upper # None
                  THEN (LET room == RatSub(m.lim_upper[1], m.counts)
                        IN  IF RatLe(v0, room) THEN v0 ELSE room)
                  ELSE v0
             ELSE IF m.lim_lower # None
                  THEN (LET room == RatSub(m.lim_lower[1], m.counts)
                        IN  IF RatLe(room, v0) THEN v0 ELSE room)
                  ELSE v0
        d == IF m.invert THEN ~direction ELSE direction
        w0 == SetAttr(c, "counts", RatAdd(m.counts, v))
        w1 == eWriteName(w0, m.dir_reg, IF d THEN 1 ELSE 0)
        w2 == eWriteName(w1, m.pulse_reg, RatAbs(v))
        b1 == IF block THEN get_clock_hz(w2) ELSE w2
    IN  ReturnNone(b1)

\* increment letting invert reverse the bookkeeping too
increment_InvertCounts(c, value, block) ==
    LET m == c.m
        v0 == Rat(IntOf(value))
        direction == v0[1] > 0
        v == IF direction
             THEN IF m.lim_upper # None
                  THEN (LET room == RatSub(m.lim_upper[1], m.counts)
                        IN  IF RatLe(v0, room) THEN v0 ELSE room)
                  ELSE v0
             ELSE IF m.lim_lower # None
                  THEN (LET room == RatSub(m.lim_lower[1], m.counts)
                        IN  IF RatLe(room, v0) THEN v0 ELSE room)
                  ELSE v0
        d == IF m.invert THEN ~direction ELSE direction
        w1 == eWriteName(c, m.dir_reg, IF d THEN 1 ELSE 0)
        w2 == eWriteName(w1, m.pulse_reg, RatAbs(v))
        w3 == SetAttr(w2, "counts",
                      IF m.invert THEN RatSub(m.counts, v) ELSE RatAdd(m.counts, v))
        b1 == IF block THEN get_clock_hz(w3) ELSE w3
    IN  ReturnNone(b1)

\* increment applying the upper limit only
increment_UpperOnly(c, value, block) ==
    LET m == c.m
        v0 == Rat(IntOf(value))
        \* Detect the direction
        direction == v0[1] > 0
        \* Apply the motor limits as appropriate
        v == IF direction
             THEN IF m.lim_upper # None
                  THEN (LET room == RatSub(m.lim_upper[1], m.counts)
                        IN  IF RatLe(v0, room) THEN v0 ELSE room)
                  ELSE v0
             ELSE v0
        \* Invert the direction?
        d == IF m.invert THEN ~direction ELSE direction
        \* GO!
        w1 == eWriteName(c, m.dir_reg, IF d THEN 1 ELSE 0)
        w2 == eWriteName(w1, m.pulse_reg, RatAbs(v))
        w3 == SetAttr(w2, "counts", RatAdd(m.counts, v))
        b1 == IF block THEN get_clock_hz(w3) ELSE w3
    IN  ReturnNone(b1)

\* Motor.increment(value, block)
increment(c, value, block) ==
    LET m == c.m
        v0 == Rat(IntOf(value))
        \* Detect the direction
        direction == v0[1] > 0
        \* Apply the motor limits as appropriate
        v == IF direction
             THEN IF m.lim_upper # None
                  THEN (LET room == RatSub(m.lim_upper[1], m.counts)
                        IN  IF RatLe(v0, room) THEN v0 ELSE room)
                  ELSE v0
             ELSE IF m.lim_lower # None
                  THEN (LET room == RatSub(m.lim_lower[1], m.counts)
                        IN  IF RatLe(room, v0) THEN v0 ELSE room)
                  ELSE v0
        \* Invert the direction?
        d == IF m.invert THEN ~direction ELSE direction
        \* GO!
        w1 == eWriteName(c, m.dir_reg, IF d THEN 1 ELSE 0)
        w2 == eWriteName(w1, m.pulse_reg, RatAbs(v))
        w3 == SetAttr(w2, "counts", RatAdd(m.counts, v))
        b1 == IF block THEN get_clock_hz(w3) ELSE w3
    IN  ReturnNone(b1)

\* Motor.increment_cal(value, block): value / cal_slope, then increment
increment_cal(c, value, block) ==
    IF c.m.cal_slope[1] = 0 THEN Raise(c, "ZeroDivisionError")
    ELSE increment(c, RatDiv(value, c.m.cal_slope), block)

\* go taking its target for a distance
go_TargetAsDelta(c, target, block) == increment(c, target, block)

\* Motor.go(target, block)
go(c, target, block) == increment(c, RatSub(target, c.m.counts), block)

\* Motor.go_cal(target): go(target / cal_slope + cal_zero), never blocking
go_cal(c, target) ==
    IF c.m.cal_slope[1] = 0 THEN Raise(c, "ZeroDivisionError")
    ELSE go(c, RatAdd(RatDiv(target, c.m.cal_slope), c.m.cal_zero), FALSE)

\* Motor.get
get(c) == Return(c, c.m.counts)

\* Motor.get_cal: cal_slope * (counts - cal_zero)
get_cal(c) == Return(c, RatMul(c.m.cal_slope, RatSub(c.m.counts, c.m.cal_zero)))

\* Motor.get_lim_state
get_lim_state(c) ==
    IF c.m.lim_lower # None /\ RatLe(c.m.counts, c.m.lim_lower[1]) THEN Return(c, TRUE)
    ELSE IF c.m.lim_upper # None /\ RatLe(c.m.lim_upper[1], c.m.counts) THEN Return(c, TRUE)
    ELSE Return(c, FALSE)

\* Motor.set_cal(zero, slope, units)
set_cal(c, zero, slope, units) ==
    IF slope[1] <= 0
    THEN Raise(c, "Exception: The slope MUST be a positive (non-zero) number.")
    ELSE ReturnNone(SetAttr(SetAttr(SetAttr(c, "cal_zero", zero),
                                    "cal_slope", slope), "cal_units", units))

\* Motor.set_lim_upper(value=None, cal=False, here=False), declared
\* without self.  In M.set_lim_upper(...) Python binds the instance M to
\* value, the first argument given to cal and the second to here; pos are
\* the arguments given by position and kw the keywords given as True.
\* value, being M, is never None: the branch of here and of clearing is
\* never taken.  With cal true, value / self.cal_slope looks up the name
\* self, which is not defined; with cal false, int(value) is int(M).
set_lim_upper(c, pos, kw) ==
    IF Len(pos) > 2 THEN Raise(c, "TypeError: too many positional arguments")
    ELSE IF (Len(pos) >= 1 /\ "cal" \in kw) \/ (Len(pos) >= 2 /\ "here" \in kw)
         THEN Raise(c, "TypeError: got multiple values for argument")
    ELSE LET cal == IF Len(pos) >= 1 THEN pos[1][1] # 0 ELSE "cal" \in kw
         IN  IF cal THEN Raise(c, "NameError: name 'self' is not defined")
             ELSE Raise(c, "TypeError: int() argument must be a number, not 'Motor'")

\* Motor.set_lim_lower(value=None, cal=False, here=False): the same text
\* with lim_lower for lim_upper
set_lim_lower(c, pos, kw) ==
    IF Len(pos) > 2 THEN Raise(c, "TypeError: too many positional arguments")
    ELSE IF (Len(pos) >= 1 /\ "cal" \in kw) \/ (Len(pos) >= 2 /\ "here" \in kw)
         THEN Raise(c, "TypeError: got multiple values for argument")
    ELSE LET cal == IF Len(pos) >= 1 THEN pos[1][1] # 0 ELSE "cal" \in kw
         IN  IF cal THEN Raise(c, "NameError: name 'self' is not defined")
             ELSE Raise(c, "TypeError: int() argument must be a number, not 'Motor'")

-----------------------------------------------------------------------------
(***************************************************************************)
(* Homing.  The home line is an input: its level is set by the switch,     *)
(* not by the program.  levels[1] is the level at the first read and       *)
(* levels[k + 1] the level after the k-th move.                            *)
(***************************************************************************)
\* the switch drives the line before the program reads it
Drive(c, name, level) ==
    IF Failed(c) \/ name \notin DevRegs THEN c ELSE [c EXCEPT !.dev[name] = level]

\* the loop of home looking for a high level instead of a change
RECURSIVE HomeLoop_HighOnly(_, _, _, _, _, _)
HomeLoop_HighOnly(c, incr, max_tries, try_count, initial, levels) ==
    IF Failed(c) THEN c
    ELSE IF try_count >= max_tries THEN Return(c, FALSE)
    ELSE LET c1 == increment(c, incr, TRUE)
             c2 == eReadName(Drive(c1, c1.m.home_reg, levels[try_count + 2]),
                             c1.m.home_reg)
         IN  IF ~Failed(c2) /\ c2.rd # 0
             THEN Return(c2, TRUE)
             ELSE HomeLoop_HighOnly(c2, incr, max_tries, try_count + 1, initial, levels)

\* the for loop of Motor.home, from iteration try_count on
RECURSIVE HomeLoop(_, _, _, _, _, _)
HomeLoop(c, incr, max_tries, try_count, initial, levels) ==
    IF Failed(c) THEN c
    ELSE IF try_count >= max_tries THEN Return(c, FALSE)
    ELSE LET \* Move the stage
             c1 == increment(c, incr, TRUE)
             \* Test the home pin
             c2 == eReadName(Drive(c1, c1.m.home_reg, levels[try_count + 2]),
                             c1.m.home_reg)
         IN  IF ~Failed(c2) /\ c2.rd # initial
             THEN Return(c2, TRUE)
             ELSE HomeLoop(c2, incr, max_tries, try_count + 1, initial, levels)

\* home reading the line before it looks whether there is one
home_ReadFirst(c, incr, max_tries, levels) ==
    LET c0 == eReadName(Drive(c, c.m.home_reg, levels[1]), c.m.home_reg)
    IN  IF c.m.home_reg = <<>>
        THEN Raise(c0, "Exception: The home channel was not configured.")
        ELSE HomeLoop(c0, incr, max_tries, 0, c0.rd, levels)

\* Motor.home(increment, max_tries)
home(c, incr, max_tries, levels) ==
    IF c.m.home_reg = <<>>
    THEN Raise(c, "Exception: The home channel was not configured.")
    ELSE LET \* Detect the initial value of the home pin
             c0 == eReadName(Drive(c, c.m.home_reg, levels[1]), c.m.home_reg)
         IN  HomeLoop(c0, incr, max_tries, 0, c0.rd, levels)

-----------------------------------------------------------------------------
(***************************************************************************)
(* Configuration files.  config is the dictionary json.load returns: a     *)
(* function from the keys of the file to their values.                     *)
(***************************************************************************)
mandatory == {"clock_roll", "clock_divisor", "dir_pin", "pulse_pin"}

allowed == {"home_pin", "cal_slope", "cal_zero", "cal_units",
            "lim_upper", "lim_lower", "invert"} \cup mandatory

\* Python's any() over a set of strings: some member is a non-empty string
any(S) == \E k \in S : k # ""

\* if key in config: self.<key> = config[key]
LoadAttr(c, config, key) ==
    IF key \in DOMAIN config THEN SetAttr(c, key, config[key]) ELSE c

\* load putting the axis back at zero counts
load_ZeroCounts(c, config) ==
    LET has == DOMAIN config
        missing == mandatory \ has
        illegal == has \ allowed
    IN  IF any(missing) THEN Raise(c, "Exception: Missing mandatory parameters")
        ELSE IF any(illegal) THEN Raise(c, "Exception: Illegal configuration parameters")
        ELSE LET roll == config["clock_roll"]
                 divisor == config["clock_divisor"]
                 \* Configure the clock
                 k1 == set_clock(c, roll, divisor)
                 home_pin == IF "home_pin" \in has THEN config["home_pin"] ELSE -1
                 \* Apply the pin settings
                 k2 == set_clock(k1, roll, divisor)
                 p1 == set_pins(k2, config["dir_pin"], config["pulse_pin"],
                                home_pin, FALSE)
                 \* Now, apply the optional parameters
                 o1 == LoadAttr(p1, config, "invert")
                 o2 == LoadAttr(o1, config, "cal_slope")
                 o3 == LoadAttr(o2, config, "cal_zero")
                 o4 == LoadAttr(o3, config, "cal_units")
                 o5 == LoadAttr(o4, config, "lim_upper")
                 o6 == LoadAttr(o5, config, "lim_lower")
             IN  ReturnNone(SetAttr(o6, "counts", Rat(0)))

\* Motor.load(filename), config being the content of the file
load(c, config) ==
    LET has == DOMAIN config
        missing == mandatory \ has
        illegal == has \ allowed
    IN  IF any(missing) THEN Raise(c, "Exception: Missing mandatory parameters")
        ELSE IF any(illegal) THEN Raise(c, "Exception: Illegal configuration parameters")
        ELSE LET roll == config["clock_roll"]
                 divisor == config["clock_divisor"]
                 \* Configure the clock
                 k1 == set_clock(c, roll, divisor)
                 home_pin == IF "home_pin" \in has THEN config["home_pin"] ELSE -1
                 \* Apply the pin settings
                 k2 == set_clock(k1, roll, divisor)
                 p1 == set_pins(k2, config["dir_pin"], config["pulse_pin"],
                                home_pin, FALSE)
                 \* Now, apply the optional parameters
                 o1 == LoadAttr(p1, config, "invert")
                 o2 == LoadAttr(o1, config, "cal_slope")
                 o3 == LoadAttr(o2, config, "cal_zero")
                 o4 == LoadAttr(o3, config, "cal_units")
                 o5 == LoadAttr(o4, config, "lim_upper")
                 o6 == LoadAttr(o5, config, "lim_lower")
             IN  ReturnNone(o6)

\* The file of save: there is none, or it holds the JSON documents written
\* to it (none: an empty file).
NoFile == [exists |-> FALSE, docs |-> <<>>]

\* open(filename, 'w'): the file is created or emptied
OpenW(c) == IF Failed(c) THEN c ELSE [c EXCEPT !.disk = [exists |-> TRUE, docs |-> <<>>]]

\* the dictionary save builds from the clock read and the attributes
SaveConfig(m, roll, divisor) ==
    [clock_roll |-> roll, clock_divisor |-> divisor,
     dir_pin |-> m.dir_pin, pulse_pin |-> m.pulse_pin, home_pin |-> m.home_pin,
     invert |-> m.invert, cal_slope |-> m.cal_slope, cal_zero |-> m.cal_zero,
     cal_units |-> m.cal_units, lim_upper |-> m.lim_upper, lim_lower |-> m.lim_lower]

\* Motor.save(filename): json.dump(config, indent=4) is called without
\* the file, which json.dump requires: it raises TypeError and nothing is
\* written to the file save has just opened.
save(c) ==
    LET f == OpenW(c)
        g == get_clock(f)
    IN  Raise(g, "TypeError: dump() missing 1 required positional argument: 'fp'")

\* Motor.load(filename) of the file of save: open and json.load, then load
LoadFile(c) ==
    IF ~c.disk.exists THEN Raise(c, "FileNotFoundError")
    ELSE IF c.disk.docs = <<>> THEN Raise(c, "JSONDecodeError")
    ELSE load(c, c.disk.docs[1])

-----------------------------------------------------------------------------
(***************************************************************************)
(* The state after construction, and the method calls as actions.          *)
(***************************************************************************)
\* global_init builds two Motor instances on one handle
Axes == {"polarizer", "monochrometer"}

\* the registers of a device nobody has configured yet
DevInit ==
    [r \in DevRegs |-> IF r \in BigRegs THEN BigOf(0)
                       ELSE IF r \in RatRegs THEN <<0, 1>> ELSE 0]

Init ==
    /\ dev = DevInit
    /\ motor = [a \in Axes |-> MotorInit]
    /\ disk = NoFile
    /\ call = [op |-> "__init__", axis |-> "", args |-> <<>>, err |-> "",
               ret |-> None, io |-> <<>>]

\* The positions the model follows are those within MaxCounts of zero.
MaxCounts == 4

\* Register calls 1 .. MaxFailAt of a method may fail with a device error.
MaxFailAt == 4

FailAts == 0 .. MaxFailAt

\* the call of method op on instance a with arguments args ran as c
Do(a, op, args, c) ==
    /\ RatLe(RatAbs(c.m.counts), Rat(MaxCounts))
    /\ dev' = c.dev
    /\ motor' = [motor EXCEPT ![a] = c.m]
    /\ disk' = c.disk
    /\ call' = [op |-> op, axis |-> a, args |-> args, err |-> c.err,
                ret |-> c.ret, io |-> c.io]

SetClock(a, roll, divisor, f) ==
    Do(a, "set_clock", <<roll, divisor>>, ReturnNone(set_clock(Ctx(a, f), roll, divisor)))

SetClockHz(a, rate, f) ==
    Do(a, "set_clock_hz", <<rate>>, ReturnNone(set_clock_hz(Ctx(a, f), rate)))

GetClock(a, f) == Do(a, "get_clock", <<>>, get_clock(Ctx(a, f)))

GetClockHz(a, f) == Do(a, "get_clock_hz", <<>>, get_clock_hz(Ctx(a, f)))

SetPins(a, dir_pin, pulse_pin, home_pin, invert, f) ==
    Do(a, "set_pins", <<dir_pin, pulse_pin, home_pin, invert>>,
       set_pins(Ctx(a, f), dir_pin, pulse_pin, home_pin, invert))

Load(a, config, f) == Do(a, "load", <<config>>, load(Ctx(a, f), config))

SetCal(a, zero, slope, units) ==
    Do(a, "set_cal", <<zero, slope, units>>, set_cal(Ctx(a, 0), zero, slope, units))

\* M.invert = b: the one attribute the class lets its user assign directly
SetInvert(a, b) ==
    Do(a, "invert", <<b>>, ReturnNone(SetAttr(Ctx(a, 0), "invert", b)))

Increment(a, value, block, f) ==
    Do(a, "increment", <<value, block>>, increment(Ctx(a, f), value, block))

IncrementCal(a, value, block, f) ==
    Do(a, "increment_cal", <<value, block>>, increment_cal(Ctx(a, f), value, block))

Go(a, target, block, f) ==
    Do(a, "go", <<target, block>>, go(Ctx(a, f), target, block))

GoCal(a, target, f) == Do(a, "go_cal", <<target>>, go_cal(Ctx(a, f), target))

Home(a, incr, max_tries, levels, f) ==
    Do(a, "home", <<incr, max_tries, levels>>,
       home(Ctx(a, f), incr, max_tries, levels))

Get(a) == Do(a, "get", <<>>, get(Ctx(a, 0)))

GetCal(a) == Do(a, "get_cal", <<>>, get_cal(Ctx(a, 0)))

GetLimState(a) == Do(a, "get_lim_state", <<>>, get_lim_state(Ctx(a, 0)))

SetLimUpper(a, pos, kw) ==
    Do(a, "set_lim_upper", <<pos, kw>>, set_lim_upper(Ctx(a, 0), pos, kw))

SetLimLower(a, pos, kw) ==
    Do(a, "set_lim_lower", <<pos, kw>>, set_lim_lower(Ctx(a, 0), pos, kw))

Save(a, f) == Do(a, "save", <<>>, save(Ctx(a, f)))

\* load of the file that save wrote
LoadSaved(a) == Do(a, "load_saved", <<>>, LoadFile(Ctx(a, 0)))

-----------------------------------------------------------------------------
(***************************************************************************)
(* SpecClock: the clock settings, applied by set_clock, by set_clock_hz    *)
(* and by load.                                                            *)
(***************************************************************************)
\* Target rates are the slow rates p / 2^(5 + k) Hz for p up to MaxRateNum
\* and k up to MaxRateExp (exactly representable floats; 80e6 * 2^6 is the
\* first roll above 0xFFFFFFFF), and a few whole rates: the 1000 Hz of
\* global_init, its negative, zero, and rates around the system clock.
MaxRateNum == 3

MaxRateExp == 2

Rates == {<<p, 32 * 2^k>> : p \in 1 .. MaxRateNum, k \in 0 .. MaxRateExp}
            \cup {<<p, 1>> : p \in {-1000, 0, 1000, ClockHz, ClockHz + 1, 2 * ClockHz}}

Rolls == {BigOf(0), BigOf(80000), UINT32_MAX}

Divisors == {1, 2}

\* a configuration file with the mandatory fields only
ClockConfig(roll, divisor) ==
    [k \in mandatory |-> CASE k = "clock_roll" -> roll
                           [] k = "clock_divisor" -> divisor
                           [] k = "dir_pin" -> 0
                           [] k = "pulse_pin" -> 1]

NextClock ==
    \E a \in {"polarizer"}, f \in FailAts :
        \/ \E roll \in Rolls, divisor \in Divisors : SetClock(a, roll, divisor, f)
        \/ \E rate \in Rates : SetClockHz(a, rate, f)
        \/ \E roll \in Rolls, divisor \in Divisors : Load(a, ClockConfig(roll, divisor), f)
        \/ GetClock(a, f)
        \/ GetClockHz(a, f)

SpecClock == Init /\ [][NextClock]_vars

\* the register calls of the last method call that write a clock register
ClockWrites == SelectSeq(call.io, LAMBDA e : e.k = "w" /\ e.reg \in ClockRegs)

ClockOrder == <<"DIO_EF_CLOCK0_ENABLE", "DIO_EF_CLOCK0_ROLL_VALUE",
                "DIO_EF_CLOCK0_DIVISOR", "DIO_EF_CLOCK0_ENABLE">>

\* the settings a call of set_clock or load was given
SettingsGiven ==
    IF call.op = "set_clock" THEN <<call.args[1], call.args[2]>>
    ELSE <<call.args[1]["clock_roll"], call.args[1]["clock_divisor"]>>

\* C7: every application of clock settings writes enable = 0, the roll, the
\* divisor and enable = 1 in this order: the clock writes of any call are
\* whole groups of these four (cut short only by a device error), roll and
\* divisor are written only inside a group, and a call of set_clock,
\* set_clock_hz or load that completes wrote the settings it was given and
\* leaves the clock enabled.
C7_ClockSequence ==
    LET ws == ClockWrites
    IN  /\ \A i \in 1 .. Len(ws) :
              LET j == ((i - 1) % 4) + 1
              IN  /\ ws[i].reg = <<ClockOrder[j]>>
                  /\ (j = 1 => ws[i].val = 0)
                  /\ (j = 4 => ws[i].val = 1)
                  /\ (i < Len(ws) => ws[i].ok)
        /\ (call.err = "" =>
              /\ Len(ws) % 4 = 0
              /\ \A i \in 1 .. Len(ws) : ws[i].ok)
        /\ (call.err = "" /\ call.op \in {"set_clock", "set_clock_hz", "load"} =>
              /\ Len(ws) = IF call.op = "load" THEN 8 ELSE 4
              /\ dev[<<"DIO_EF_CLOCK0_ENABLE">>] = 1)
        /\ (call.err = "" /\ call.op \in {"set_clock", "load"} =>
              \A i \in 1 .. Len(ws) :
                  /\ ((i - 1) % 4 = 1 => ws[i].val = SettingsGiven[1])
                  /\ ((i - 1) % 4 = 2 => ws[i].val = SettingsGiven[2]))

C7_Witness ==
    /\ call.op = "load" /\ call.err = ""
    /\ Len(ClockWrites) = 8
    /\ dev[<<"DIO_EF_CLOCK0_ROLL_VALUE">>] = UINT32_MAX

\* the settings a completed call of set_clock_hz wrote
RollWritten == ClockWrites[2].val

DivisorWritten == ClockWrites[3].val

RECURSIVE IsPowerOfTwo(_)
IsPowerOfTwo(n) == n = 1 \/ (n > 1 /\ n % 2 = 0 /\ IsPowerOfTwo(n \div 2))

\* C8: for a positive rate p / q, set_clock_hz writes a roll of at most
\* 0xFFFFFFFF and a divisor that is a power of two, halved no further than
\* needed (a divisor above 1 goes with a roll of at least 2^31), such that
\* roll * divisor <= 80e6 / rate < (roll + 1) * divisor.
C8_Quantization ==
    (call.op = "set_clock_hz" /\ call.err = "" /\ call.args[1][1] > 0) =>
        LET p == call.args[1][1]
            q == call.args[1][2]
            base == BigMulInt(BigOf(ClockHz), q)
        IN  /\ BigLe(RollWritten, UINT32_MAX)
            /\ IsPowerOfTwo(DivisorWritten)
            /\ (DivisorWritten > 1 => RollWritten[1] >= Limb \div 2)
            /\ BigLe(BigMulInt(BigMulInt(RollWritten, DivisorWritten), p), base)
            /\ BigLt(base, BigMulInt(BigMulInt(BigSucc(RollWritten), DivisorWritten), p))
            /\ dev[<<"DIO_EF_CLOCK0_ROLL_VALUE">>] = RollWritten
            /\ dev[<<"DIO_EF_CLOCK0_DIVISOR">>] = DivisorWritten

C8_Witness ==
    /\ call.op = "set_clock_hz" /\ call.err = ""
    /\ call.args[1] = <<1, 2^7>>
    /\ DivisorWritten = 4

\* C9 as claimed: set_clock_hz fails, writing no clock register, when the
\* rate is 0 or the roll computed from it is 0, and never writes a roll of 0.
C9_ZeroRollRejected ==
    call.op = "set_clock_hz" =>
        LET p == Abs(call.args[1][1])
            q == call.args[1][2]
            rollIsZero == p # 0 /\ BigLt(BigMulInt(BigOf(ClockHz), q), BigOf(p))
        IN  /\ (p = 0 \/ rollIsZero) => (call.err # "" /\ ClockWrites = <<>>)
            /\ \A i \in 1 .. Len(ClockWrites) :
                  ClockWrites[i].reg = <<"DIO_EF_CLOCK0_ROLL_VALUE">>
                      => ClockWrites[i].val # BigOf(0)

-----------------------------------------------------------------------------
(***************************************************************************)
(* SpecMotion: one axis, its pins bound by set_pins or load, its limits    *)
(* set by load (the only method that sets them), moved by increment and    *)
(* go.  No device error here: SpecMotionErr has them.                      *)
(***************************************************************************)
\* Limits are None or a position within MaxLim of zero.
MaxLim == 1

Lims == {None} \cup {Some(Rat(v)) : v \in -MaxLim .. MaxLim}

\* Requested moves and targets are within MaxDelta of zero.
MaxDelta == 2

Deltas == {Rat(v) : v \in -MaxDelta .. MaxDelta}

\* the 1000 Hz clock of global_init
Roll1kHz == BigOf(80000)

\* a configuration file with the mandatory fields and both limits
LimitConfig(upper, lower) ==
    [lim_upper |-> upper, lim_lower |-> lower] @@ ClockConfig(Roll1kHz, 1)

NextMotion ==
    \E a \in {"polarizer"} :
        \/ \E invert \in BOOLEAN : SetPins(a, 0, 1, -1, invert, 0)
        \/ \E upper \in Lims, lower \in Lims : Load(a, LimitConfig(upper, lower), 0)
        \/ \E b \in BOOLEAN : SetInvert(a, b)
        \/ \E value \in Deltas, block \in BOOLEAN : Increment(a, value, block, 0)
        \/ \E target \in Deltas, block \in BOOLEAN : Go(a, target, block, 0)

SpecMotion == Init /\ [][NextMotion]_vars

\* the instance the last call was made on
Self == motor[call.axis]

\* C1 as claimed: whatever the state, a completed increment(delta) keeps
\* counts <= lim_upper if it held before, keeps counts >= lim_lower if it
\* held before, and changes counts by exactly delta when the bound in the
\* direction of motion is unset.
C1_ClampKeepsLimits ==
    [][(call'.op = "increment" /\ call'.err = "") =>
          LET old == motor[call'.axis]
              new == motor'[call'.axis]
              delta == Rat(IntOf(call'.args[1]))
          IN  /\ (old.lim_upper # None /\ RatLe(old.counts, old.lim_upper[1])
                      => RatLe(new.counts, old.lim_upper[1]))
              /\ (old.lim_lower # None /\ RatLe(old.lim_lower[1], old.counts)
                      => RatLe(old.lim_lower[1], new.counts))
              /\ ((IF delta[1] > 0 THEN old.lim_upper ELSE old.lim_lower) = None
                      => new.counts = RatAdd(old.counts, delta))]_vars

\* the value written to the direction line for a move of value counts
DirBit(value, invert) == IF (IntOf(value) > 0) # invert THEN 1 ELSE 0

\* C5: invert changes only the direction line.  From any reachable state
\* and for any delta, increment(delta) run with invert False and with
\* invert True ends with the same counts, the same other attributes and the
\* same pulse count written, and the direction register is written
\* (delta > 0) without invert and its negation with it; the calls the model
\* made wrote the direction bit so.
C5_InvertOnlyDirection ==
    /\ \A a \in {"polarizer"}, value \in Deltas :
          LET start == Ctx(a, 0)
              plain == increment([start EXCEPT !.m.invert = FALSE], value, FALSE)
              inverted == increment([start EXCEPT !.m.invert = TRUE], value, FALSE)
          IN  /\ plain.m.counts = inverted.m.counts
              /\ plain.m = [inverted.m EXCEPT !.invert = FALSE]
              /\ plain.err = inverted.err
              /\ Len(plain.io) = Len(inverted.io)
              /\ (Len(plain.io) >= 1 =>
                    /\ plain.io[1].val = (IF IntOf(value) > 0 THEN 1 ELSE 0)
                    /\ inverted.io[1].val = 1 - plain.io[1].val)
              /\ (Len(plain.io) >= 2 => plain.io[2] = inverted.io[2])
    /\ (call.op = "increment" /\ call.io # <<>> =>
          call.io[1].val = DirBit(call.args[1], Self.invert))

C5_Witness ==
    /\ call.op = "increment" /\ call.err = ""
    /\ Self.invert
    /\ call.args[1] = Rat(2)
    /\ call.io[1].val = 0
    /\ call.io[2].val = Rat(2)
    /\ Self.counts = Rat(2)

NoLimits(m) == m.lim_upper = None /\ m.lim_lower = None

\* C6: with no limits set, a completed go(target) ends at counts = target,
\* and a go(target) that follows a completed go(target) at once writes a
\* pulse count of 0 and leaves counts as it was.
C6_GoReachesTarget ==
    [][(call'.op = "go" /\ call'.err = "" /\ NoLimits(motor[call'.axis])) =>
          LET old == motor[call'.axis]
              new == motor'[call'.axis]
          IN  /\ new.counts = call'.args[1]
              /\ call'.io[2].val = RatAbs(RatSub(call'.args[1], old.counts))
              /\ (call.op = "go" /\ call.err = "" /\ call.axis = call'.axis
                    /\ call.args[1] = call'.args[1] =>
                      /\ call'.io[2].reg = new.pulse_reg
                      /\ call'.io[2].val = Rat(0)
                      /\ new.counts = old.counts)]_vars

C6_Witness ==
    /\ call.op = "go" /\ call.err = ""
    /\ NoLimits(Self)
    /\ call.args[1] = Rat(2)
    /\ Self.counts = Rat(2)
    /\ call.io[2].val = Rat(0)

-----------------------------------------------------------------------------
(***************************************************************************)
(* SpecMotionErr: the motion commands, raw and calibrated, with device     *)
(* errors: any of the first MaxFailAt register calls of a command may      *)
(* fail.  load binds the pins and sets the clock and the upper limit;     *)
(* it and set_cal do not fail here.                                        *)
(***************************************************************************)
ErrDeltas == {Rat(-1), Rat(1), Rat(2)}

MotionOps == {"increment", "go", "increment_cal", "go_cal"}

\* one count is half a unit
HalfUnit == <<1, 2>>

NextMotionErr ==
    \E a \in {"polarizer"} :
        \/ \E slope \in {Rat(1), HalfUnit} : SetCal(a, Rat(0), slope, "deg")
        \/ \E upper \in {None, Some(Rat(1))} : Load(a, LimitConfig(upper, None), 0)
        \/ \E value \in ErrDeltas, block \in BOOLEAN, f \in FailAts :
              Increment(a, value, block, f)
        \/ \E target \in ErrDeltas, block \in BOOLEAN, f \in FailAts :
              Go(a, target, block, f)
        \/ \E value \in ErrDeltas, block \in BOOLEAN, f \in FailAts :
              IncrementCal(a, value, block, f)
        \/ \E target \in ErrDeltas, f \in FailAts : GoCal(a, target, f)

SpecMotionErr == Init /\ [][NextMotionErr]_vars

-----------------------------------------------------------------------------
(***************************************************************************)
(* SpecHome: homing, on an axis with or without a home pin, with a clock   *)
(* that is set or still zero, for every course of the home line.           *)
(***************************************************************************)
\* home is called with max_tries of 0, 1 and MaxTries
MaxTries == 3

Tries == {0, 1, MaxTries}

Levels(max_tries) == [1 .. max_tries + 1 -> {0, 1}]

\* The reads of the home line are register calls 1, 6, 11, ... of home (the
\* four between are those of a blocking increment, which SpecMotionErr lets
\* fail): the first read, or the read after the first move, may fail.
HomeFailAts == {0, 1, 6}

NextHome ==
    \E a \in {"polarizer"} :
        \/ \E home_pin \in {-1, 2} : SetPins(a, 0, 1, home_pin, FALSE, 0)
        \/ SetClock(a, Roll1kHz, 1, 0)
        \/ \E incr \in {Rat(-1), Rat(1)}, max_tries \in Tries, f \in HomeFailAts :
              \E levels \in Levels(max_tries) : Home(a, incr, max_tries, levels, f)

SpecHome == Init /\ [][NextHome]_vars

\* the register calls of the last call on register name
CallsOn(name) == SelectSeq(call.io, LAMBDA e : e.reg = name)

\* the moves of the last call: its writes of a pulse count
Moves == Len(CallsOn(Self.pulse_reg))

\* the reads of the home line by the last call
HomeReads == Len(CallsOn(Self.home_reg))

\* the moves after which the home line differs from its initial level
Flips(levels, max_tries) == {k \in 1 .. max_tries : levels[k + 1] # levels[1]}

SetMin(S) == CHOOSE k \in S : \A j \in S : k <= j

\* C2: home on an axis with a home pin reads the line once, then repeats a
\* blocking increment(increment) and one more read, at most max_tries
\* times.  When it returns, it returns True with exactly k moves made if
\* the level first differs from the initial one after the k-th move,
\* whichever way it changed, and False with exactly max_tries moves made
\* if it never differs.  A call that raises has made at most max_tries
\* moves, each followed by at most one read.
C2_HomeSeeksChange ==
    (call.op = "home" /\ Self.home_reg # <<>>) =>
        LET incr == call.args[1]
            max_tries == call.args[2]
            levels == call.args[3]
            flips == Flips(levels, max_tries)
            io == call.io
        IN  /\ Moves <= max_tries
            /\ HomeReads <= Moves + 1
            /\ io[1].k = "r" /\ io[1].reg = Self.home_reg
            /\ \A i \in 2 .. Len(io) :
                  \* after the first read, groups of five register calls:
                  \* direction, pulse count, the clock (blocking), home line
                  LET j == (i - 2) % 5
                  IN  /\ (j = 0 => io[i].k = "w" /\ io[i].reg = Self.dir_reg)
                      /\ (j = 1 => /\ io[i].k = "w" /\ io[i].reg = Self.pulse_reg
                                   /\ io[i].val = RatAbs(incr))
                      /\ (j = 2 => io[i].k = "r" /\ io[i].reg = <<"DIO_EF_CLOCK0_DIVISOR">>)
                      /\ (j = 3 => io[i].k = "r" /\ io[i].reg = <<"DIO_EF_CLOCK0_ROLL_VALUE">>)
                      /\ (j = 4 => io[i].k = "r" /\ io[i].reg = Self.home_reg)
            /\ (call.err = "" =>
                  /\ call.ret \in {Some(TRUE), Some(FALSE)}
                  /\ HomeReads = Moves + 1
                  /\ Len(io) = 1 + 5 * Moves
                  /\ IF flips # {}
                     THEN call.ret = Some(TRUE) /\ Moves = SetMin(flips)
                     ELSE call.ret = Some(FALSE) /\ Moves = max_tries)
            /\ (call.err # "" => call.ret = None)

\* the scenario of the specification: the level flips from 0 to 1 on the
\* last move that max_tries allows
C2_Witness ==
    /\ call.op = "home" /\ call.err = ""
    /\ call.args[2] = MaxTries
    /\ call.args[3] = [k \in 1 .. MaxTries + 1 |-> IF k = MaxTries + 1 THEN 1 ELSE 0]
    /\ call.ret = Some(TRUE)
    /\ Moves = MaxTries

\* C3: home on an axis with no home pin bound raises before it issues any
\* register call and changes nothing of the instance or the device.
C3_HomeNotConfigured ==
    [][(call'.op = "home" /\ motor[call'.axis].home_reg = <<>>) =>
          /\ call'.err = "Exception: The home channel was not configured."
          /\ call'.io = <<>>
          /\ motor' = motor
          /\ dev' = dev]_vars

C3_Witness ==
    /\ call.op = "home"
    /\ Self.home_reg = <<>>
    /\ Self.pulse_reg # <<>>
    /\ call.err = "Exception: The home channel was not configured."
    /\ call.args[2] = MaxTries

-----------------------------------------------------------------------------
(***************************************************************************)
(* SpecCal: the calibration, set by set_cal and by load, and the moves     *)
(* and readings in calibrated units.                                       *)
(***************************************************************************)
Slopes == {Rat(-1), Rat(0), HalfUnit, Rat(1), Rat(2)}

Zeros == {Rat(0), Rat(1)}

\* a configuration file with the mandatory fields and a calibration slope
CalConfig(slope) == [cal_slope |-> slope] @@ ClockConfig(Roll1kHz, 1)

NextCal ==
    \E a \in {"polarizer"} :
        \/ \E zero \in Zeros, slope \in Slopes : SetCal(a, zero, slope, "deg")
        \/ \E slope \in Slopes : Load(a, CalConfig(slope), 0)
        \/ Load(a, ClockConfig(Roll1kHz, 1), 0)
        \/ \E value \in Deltas : IncrementCal(a, value, FALSE, 0)
        \/ \E target \in Deltas : GoCal(a, target, 0)
        \/ GetCal(a)

SpecCal == Init /\ [][NextCal]_vars

\* C10 as claimed: after any calls of set_cal and load the slope of every
\* instance is positive, and a set_cal with slope <= 0 raises and leaves
\* cal_zero, cal_slope and cal_units as they were.
C10_SlopePositive ==
    /\ [](\A a \in Axes : motor[a].cal_slope[1] > 0)
    /\ [][(call'.op = "set_cal" /\ call'.args[2][1] <= 0) =>
             /\ call'.err # ""
             /\ motor' = motor]_vars

-----------------------------------------------------------------------------
(***************************************************************************)
(* SpecLoad: load of configuration files that lack a mandatory key or      *)
(* hold a key that is no parameter.                                        *)
(***************************************************************************)
\* keys that are no parameter; the empty string is a key JSON allows
ExtraKeys == {"foo", ""}

\* the file of global_init's polarizer, with a home pin
FullConfig ==
    [home_pin |-> 2] @@ ClockConfig(Roll1kHz, 1)

\* the files: the full one with at most one of its keys left out and any
\* of the extra keys added
LoadConfigs ==
    {[k \in ((DOMAIN FullConfig \ dropped) \cup extra) |->
         IF k \in DOMAIN FullConfig THEN FullConfig[k] ELSE 0] :
     dropped \in {d \in SUBSET (DOMAIN FullConfig) : Cardinality(d) <= 1},
     extra \in SUBSET ExtraKeys}

NextLoad ==
    \E a \in {"polarizer"} :
        \/ \E config \in LoadConfigs, f \in FailAts : Load(a, config, f)
        \/ \E value \in {Rat(-1), Rat(1)} : Increment(a, value, FALSE, 0)
        \/ Get(a)

SpecLoad == Init /\ [][NextLoad]_vars

\* C11 as claimed: load of a record that lacks a mandatory field, or that
\* holds a key outside the mandatory and optional fields, whatever the key,
\* raises, and then no register has been written and no attribute changed.
C11_LoadStrictSchema ==
    [][(/\ call'.op = "load"
        /\ \/ ~(mandatory \subseteq DOMAIN call'.args[1])
           \/ ~(DOMAIN call'.args[1] \subseteq allowed)) =>
          /\ call'.err # ""
          /\ call'.io = <<>>
          /\ motor' = motor
          /\ dev' = dev]_vars

-----------------------------------------------------------------------------
(***************************************************************************)
(* SpecSave: save of a configured axis and load of the file it wrote.      *)
(***************************************************************************)
NextSave ==
    \E a \in {"polarizer"} :
        \/ \E roll \in Rolls, divisor \in Divisors : SetClock(a, roll, divisor, 0)
        \/ \E home_pin \in {-1, 2}, invert \in BOOLEAN :
              SetPins(a, 0, 1, home_pin, invert, 0)
        \/ \E zero \in Zeros, slope \in {HalfUnit, Rat(1)} : SetCal(a, zero, slope, "deg")
        \/ \E f \in 0 .. 2 : Save(a, f)
        \/ LoadSaved(a)

SpecSave == Init /\ [][NextSave]_vars

\* the axis of the last call has its pins bound to lines of the device
Configured == Self.dir_reg \in DevRegs /\ Self.pulse_reg \in DevRegs

\* C12 as claimed: save of a configured axis, the device answering,
\* succeeds and writes one record whose keys are exactly those of the
\* schema, with the clock of the device and the attributes of the axis;
\* load of that file succeeds and leaves the clock, the pins, invert, the
\* calibration and the limits as they were.
C12_SaveLoadRoundTrip ==
    (call.op = "save" /\ Configured /\ \A i \in DOMAIN call.io : call.io[i].ok) =>
        /\ call.err = ""
        /\ disk.exists /\ Len(disk.docs) = 1
        /\ DOMAIN disk.docs[1] = allowed
        /\ disk.docs[1] = SaveConfig(Self, dev[<<"DIO_EF_CLOCK0_ROLL_VALUE">>],
                                     dev[<<"DIO_EF_CLOCK0_DIVISOR">>])
        /\ LET r == LoadFile(Ctx(call.axis, 0))
           IN  /\ r.err = ""
               /\ r.m = Self
               /\ \A reg \in ClockRegs : r.dev[reg] = dev[reg]

-----------------------------------------------------------------------------
(***************************************************************************)
(* SpecPins: set_pins of the polarizer with every choice of lines, valid   *)
(* or not, next to a monochrometer bound on the same device.               *)
(***************************************************************************)
\* pin numbers given to set_pins of the polarizer: direction and pulse on
\* lines 0 and 1 or negative, home on any of the first three lines or none
PinIds == {-1, 0, 1}

HomeIds == {-1, 0, 1, 2}

NextPins ==
    \/ \E dir_pin \in PinIds, pulse_pin \in PinIds, home_pin \in HomeIds :
          SetPins("polarizer", dir_pin, pulse_pin, home_pin, FALSE, 0)
    \/ SetPins("monochrometer", 0, 2, -1, FALSE, 0)

SpecPins == Init /\ [][NextPins]_vars

\* the pin attributes of an instance
PinAttrs(m) == <<m.dir_pin, m.dir_reg, m.pulse_pin, m.pulse_reg, m.home_pin, m.home_reg>>

\* the register writes of the last call
Writes == SelectSeq(call.io, LAMBDA e : e.k = "w")

\* C13 as claimed: set_pins with a negative direction or pulse pin, or
\* with one line given two roles, raises, writes no register and leaves
\* the pin attributes of the axis as they were.
C13_PinsValidated ==
    [][(/\ call'.op = "set_pins"
        /\ LET dir_pin == call'.args[1]
               pulse_pin == call'.args[2]
               home_pin == call'.args[3]
           IN  \/ dir_pin < 0 \/ pulse_pin < 0
               \/ dir_pin = pulse_pin
               \/ (home_pin >= 0 /\ home_pin \in {dir_pin, pulse_pin})) =>
          /\ call'.err # ""
          /\ \A i \in DOMAIN call'.io : call'.io[i].k = "r"
          /\ PinAttrs(motor'[call'.axis]) = PinAttrs(motor[call'.axis])]_vars

\* bit n of a mask
Bit(mask, n) == (mask \div 2^n) % 2

\* C15: a completed set_pins with distinct non-negative pins leaves in
\* DIO_DIRECTION the bits of the direction and pulse pins set, the bit of
\* the home pin, if there is one, cleared, and every other bit as it was
\* before the call.
C15_MaskReadModifyWrite ==
    [][(/\ call'.op = "set_pins" /\ call'.err = ""
        /\ call'.args[1] >= 0 /\ call'.args[2] >= 0
        /\ call'.args[1] # call'.args[2]
        /\ call'.args[3] \notin {call'.args[1], call'.args[2]}) =>
          LET before == dev[<<"DIO_DIRECTION">>]
              after == dev'[<<"DIO_DIRECTION">>]
          IN  /\ \A n \in DevPins :
                    Bit(after, n) = IF n \in {call'.args[1], call'.args[2]} THEN 1
                                    ELSE IF n = call'.args[3] THEN 0
                                    ELSE Bit(before, n)
              /\ after \div 2^(MaxPin + 1) = before \div 2^(MaxPin + 1)]_vars

\* the polarizer is bound to lines 0 and 1 after the monochrometer was
\* bound to line 2: bit 2 is still set; and a home pin's bit is cleared
C15_Witness ==
    /\ call.op = "set_pins" /\ call.err = "" /\ call.axis = "polarizer"
    /\ call.args = <<0, 1, -1, FALSE>>
    /\ motor["monochrometer"].pulse_pin = 2
    /\ dev[<<"DIO_DIRECTION">>] = 7

-----------------------------------------------------------------------------
(***************************************************************************)
(* SpecShared: the two axes of global_init on one handle, the clock set    *)
(* through either of them before or after the pins are bound.              *)
(***************************************************************************)
\* rolls given to set_clock: that of 1 kHz, and an odd one
SharedRolls == {Roll1kHz, BigOf(80001)}

\* the rate only the polarizer sets: 2 kHz, a roll of 40000
Rate2kHz == <<2000, 1>>

NextShared ==
    \/ \E a \in Axes, roll \in SharedRolls, divisor \in Divisors :
          SetClock(a, roll, divisor, 0)
    \/ SetClockHz("polarizer", Rate2kHz, 0)
    \/ SetPins("polarizer", 0, 1, -1, FALSE, 0)
    \/ SetPins("monochrometer", 0, 2, -1, FALSE, 0)
    \/ \E a \in Axes : Load(a, ClockConfig(Roll1kHz, 2), 0)
    \/ \E a \in Axes : GetClock(a, 0)

SpecShared == Init /\ [][NextShared]_vars

\* C14 as claimed: whenever the pins of an axis are bound, the high phase
\* of its pulse pin (DIO<pulse_pin>_EF_CONFIG_A) is roll // 2 for the roll
\* the clock register holds.
C14_HalfDutyCycle ==
    \A a \in Axes :
        motor[a].pulse_reg \in DevRegs =>
            dev[<<"DIO#_EF_CONFIG_A", motor[a].pulse_pin>>]
                = BigShr1(dev[<<"DIO_EF_CLOCK0_ROLL_VALUE">>])

\* the roll and divisor registers
ClockNow(d) == <<d[<<"DIO_EF_CLOCK0_ROLL_VALUE">>], d[<<"DIO_EF_CLOCK0_DIVISOR">>]>>

\* C16: the clock is that of the device.  A completed set_clock or load on
\* either axis leaves the roll and divisor it was given in the registers,
\* a completed set_clock_hz the ones it wrote; set_pins on either axis
\* leaves both registers as they were; and get_clock on either axis
\* returns what the registers hold, which is therefore what was written
\* last through either axis.
C16_ClockShared ==
    [][/\ (call'.op = "set_clock" /\ call'.err = "" =>
              ClockNow(dev') = <<call'.args[1], call'.args[2]>>)
       /\ (call'.op = "load" /\ call'.err = "" =>
              ClockNow(dev') = <<call'.args[1]["clock_roll"],
                                 call'.args[1]["clock_divisor"]>>)
       /\ (call'.op = "set_clock_hz" /\ call'.err = "" =>
              LET ws == SelectSeq(call'.io, LAMBDA e : e.k = "w" /\ e.reg \in ClockRegs)
              IN  ClockNow(dev') = <<ws[2].val, ws[3].val>>)
       /\ (call'.op = "set_pins" => ClockNow(dev') = ClockNow(dev))
       /\ (call'.op = "get_clock" =>
              /\ call'.err = ""
              /\ call'.ret = Some(ClockNow(dev))
              /\ dev' = dev)]_vars

\* the monochrometer, its pins bound, reads the 2 kHz clock that only the
\* polarizer sets
C16_Witness ==
    /\ call.op = "get_clock" /\ call.axis = "monochrometer" /\ call.err = ""
    /\ call.ret = Some(<<BigOf(40000), 1>>)
    /\ motor["monochrometer"].pulse_reg \in DevRegs

-----------------------------------------------------------------------------
(***************************************************************************)
(* SpecLimits: the limits, set through set_lim_upper and set_lim_lower     *)
(* called as methods, or loaded from a file.                               *)
(***************************************************************************)
\* the arguments given by position: none, or a value
LimPos == {<<>>} \cup {<<Rat(v)>> : v \in 0 .. MaxLim}

\* the keywords given as True
LimKw == SUBSET {"cal", "here"}

NextLimits ==
    \E a \in {"polarizer"} :
        \/ \E pos \in LimPos, kw \in LimKw : SetLimUpper(a, pos, kw)
        \/ \E pos \in LimPos, kw \in LimKw : SetLimLower(a, pos, kw)
        \/ \E upper \in {None, Some(Rat(MaxLim))}, lower \in {None, Some(Rat(-MaxLim))} :
              Load(a, LimitConfig(upper, lower), 0)
        \/ \E slope \in {HalfUnit, Rat(1)} : SetCal(a, Rat(0), slope, "deg")
        \/ \E value \in Deltas : Increment(a, value, FALSE, 0)
        \/ GetLimState(a)

SpecLimits == Init /\ [][NextLimits]_vars

\* the limit a call of set_lim_upper or set_lim_lower is to set on m
LimitAsked(m, pos, kw) ==
    IF pos = <<>>
    THEN IF "here" \in kw THEN Some(m.counts) ELSE None
    ELSE IF "cal" \in kw
         THEN Some(Rat(IntOf(RatAdd(RatDiv(pos[1], m.cal_slope), m.cal_zero))))
         ELSE Some(Rat(IntOf(pos[1])))

\* C17 as claimed: M.set_lim_upper(v), M.set_lim_upper(v, cal=True),
\* M.set_lim_upper(here=True) and M.set_lim_upper() set lim_upper to
\* int(v), to int(v / cal_slope + cal_zero), to counts and to unset, and
\* likewise set_lim_lower; neither changes counts or the other limit.
C17_SetLimits ==
    [][(/\ call'.op \in {"set_lim_upper", "set_lim_lower"}
        /\ \/ call'.args[1] # <<>> /\ call'.args[2] \subseteq {"cal"}
           \/ call'.args[1] = <<>> /\ call'.args[2] \subseteq {"here"}) =>
          LET m == motor[call'.axis]
              n == motor'[call'.axis]
              asked == LimitAsked(m, call'.args[1], call'.args[2])
          IN  /\ call'.err = ""
              /\ n.counts = m.counts
              /\ IF call'.op = "set_lim_upper"
                 THEN n.lim_upper = asked /\ n.lim_lower = m.lim_lower
                 ELSE n.lim_lower = asked /\ n.lim_upper = m.lim_upper]_vars

-----------------------------------------------------------------------------
(***************************************************************************)
(* SpecCalMove: moves in calibrated units, with limits loaded from a       *)
(* file, whose values load takes as they are.                              *)
(***************************************************************************)
\* calibrated targets and distances: halves from -MaxDelta to MaxDelta
CalValues == {<<n, 1>> : n \in -MaxDelta .. MaxDelta}
                 \cup {<<n, 2>> : n \in {k \in -2 * MaxDelta .. 2 * MaxDelta : k % 2 # 0}}

\* upper limits in a file: none, a whole number, a fraction
FileLimits == {None, Some(Rat(MaxLim)), Some(HalfUnit)}

NextCalMove ==
    \E a \in {"polarizer"} :
        \/ \E zero \in Zeros, slope \in {HalfUnit, Rat(1)} : SetCal(a, zero, slope, "deg")
        \/ \E upper \in FileLimits : Load(a, LimitConfig(upper, None), 0)
        \/ \E value \in CalValues : IncrementCal(a, value, FALSE, 0)
        \/ \E target \in CalValues : GoCal(a, target, 0)
        \/ Get(a)

SpecCalMove == Init /\ [][NextCalMove]_vars

\* C18 as claimed: counts is a whole number in every reachable state, and
\* with no limits set a completed go_cal(p) moves by p / cal_slope +
\* cal_zero - counts and a completed increment_cal(v) by v / cal_slope,
\* each truncated toward zero.
C18_CalibratedMoves ==
    /\ [](\A a \in Axes : motor[a].counts[2] = 1)
    /\ [][(call'.op \in {"go_cal", "increment_cal"} /\ call'.err = ""
              /\ NoLimits(motor[call'.axis])) =>
             LET m == motor[call'.axis]
                 asked == IF call'.op = "go_cal"
                          THEN RatSub(RatAdd(RatDiv(call'.args[1], m.cal_slope),
                                             m.cal_zero), m.counts)
                          ELSE RatDiv(call'.args[1], m.cal_slope)
             IN  motor'[call'.axis].counts = RatAdd(m.counts, Rat(IntOf(asked)))]_vars

-----------------------------------------------------------------------------
(***************************************************************************)
(* SpecFrame: every method of one axis, the device failing or not, with    *)
(* increment to move the axis away from zero.                              *)
(***************************************************************************)
\* the register call that fails in SpecFrame: none, the first, the second
FrameFailAts == 0 .. 2

\* files for load: complete, with a limit, and lacking the pulse pin
FrameConfigs ==
    {ClockConfig(Roll1kHz, 1), LimitConfig(Some(Rat(MaxLim)), None),
     [k \in mandatory \ {"pulse_pin"} |-> ClockConfig(Roll1kHz, 1)[k]]}

NextFrame ==
    \E a \in {"polarizer"} :
        \/ \E f \in FrameFailAts : SetClock(a, Roll1kHz, 1, f)
        \/ \E f \in FrameFailAts : SetClockHz(a, Rate2kHz, f)
        \/ \E f \in FrameFailAts : SetPins(a, 0, 1, -1, FALSE, f)
        \/ \E slope \in {Rat(0), Rat(2)} : SetCal(a, Rat(1), slope, "deg")
        \/ SetLimUpper(a, <<Rat(1)>>, {})
        \/ SetLimLower(a, <<>>, {"here"})
        \/ \E config \in FrameConfigs, f \in FrameFailAts : Load(a, config, f)
        \/ \E f \in FrameFailAts : Save(a, f)
        \/ LoadSaved(a)
        \/ Get(a)
        \/ GetCal(a)
        \/ \E f \in FrameFailAts : GetClock(a, f)
        \/ \E f \in FrameFailAts : GetClockHz(a, f)
        \/ GetLimState(a)
        \/ \E value \in {Rat(-1), Rat(1)} : Increment(a, value, FALSE, 0)

SpecFrame == Init /\ [][NextFrame]_vars

\* the methods that command no motion
NonMotionOps ==
    {"set_clock", "set_clock_hz", "set_pins", "set_cal", "set_lim_upper",
     "set_lim_lower", "load", "load_saved", "save", "get", "get_cal",
     "get_clock", "get_clock_hz", "get_lim_state"}

\* C19: counts is 0 at construction, and no call of set_clock,
\* set_clock_hz, set_pins, set_cal, set_lim_upper, set_lim_lower, load,
\* save, get, get_cal, get_clock, get_clock_hz or get_lim_state changes
\* the counts of any instance, whether the call completes or raises.
C19_CountsOnlyByMotion ==
    /\ [](call.op = "__init__" => \A a \in Axes : motor[a].counts = Rat(0))
    /\ [][call'.op \in NonMotionOps =>
             \A a \in Axes : motor'[a].counts = motor[a].counts]_vars

\* a load completes on an axis that stands two counts from zero
C19_Witness ==
    /\ call.op = "load" /\ call.err = ""
    /\ Self.counts = Rat(2)
    /\ Self.lim_upper = Some(Rat(MaxLim))

-----------------------------------------------------------------------------
\* C20 as claimed (checked under SpecHome): home is the position at which
\* counts is zero, so right after home has returned True, counts is 0.
C20_HomeZeroesCounts ==
    (call.op = "home" /\ call.err = "" /\ call.ret = Some(TRUE)) =>
        Self.counts = Rat(0)

-----------------------------------------------------------------------------
\* The net pulses a call commanded on the axis with attributes m: over the
\* register calls io[i .. ], each pulse count written to the pulse
\* register, counted positive if the direction line as last written (dir),
\* turned around if invert is set, stands for positive motion.
RECURSIVE NetPulses(_, _, _, _)
NetPulses(io, i, dir, m) ==
    IF i > Len(io) THEN Rat(0)
    ELSE IF io[i].k = "w" /\ io[i].reg = m.dir_reg
         THEN NetPulses(io, i + 1, io[i].val, m)
    ELSE IF io[i].k = "w" /\ io[i].reg = m.pulse_reg
         THEN RatAdd(IF (dir = 1) # m.invert THEN io[i].val
                     ELSE RatSub(Rat(0), io[i].val),
                     NetPulses(io, i + 1, dir, m))
    ELSE NetPulses(io, i + 1, dir, m)

\* C21 as claimed (checked under SpecMotion, where load changes the
\* limits): every completed increment or go changes counts by the pulse
\* count it wrote, taken in the direction it wrote, so that counts is the
\* sum of the pulses commanded.
C21_CountsArePulses ==
    [][(call'.op \in {"increment", "go"} /\ call'.err = "") =>
          motor'[call'.axis].counts =
              RatAdd(motor[call'.axis].counts,
                     NetPulses(call'.io, 1, 0, motor'[call'.axis]))]_vars

-----------------------------------------------------------------------------
(***************************************************************************)
(* SpecLimited: every kind of move, homing included, on an axis whose      *)
(* pins, clock and limits come from a configuration file.                  *)
(***************************************************************************)
\* a configuration file with a home pin and both limits
HomeLimitConfig(upper, lower) == [home_pin |-> 2] @@ LimitConfig(upper, lower)

\* home is called with max_tries = 2 in SpecLimited
LimitedTries == 2

\* the limits in the files: unset, in order, equal, or out of order
UpperLims == {None, Some(Rat(0)), Some(Rat(MaxLim))}

LowerLims == {None, Some(Rat(-MaxLim)), Some(Rat(MaxLim))}

NextLimited ==
    \E a \in {"polarizer"} :
        \/ \E upper \in UpperLims, lower \in LowerLims :
              Load(a, HomeLimitConfig(upper, lower), 0)
        \/ \E slope \in {HalfUnit, Rat(1)} : SetCal(a, Rat(0), slope, "deg")
        \/ \E value \in Deltas : Increment(a, value, FALSE, 0)
        \/ \E target \in Deltas : Go(a, target, FALSE, 0)
        \/ \E value \in Deltas : IncrementCal(a, value, FALSE, 0)
        \/ \E target \in Deltas : GoCal(a, target, 0)
        \/ \E incr \in {Rat(-1), Rat(1)}, levels \in Levels(LimitedTries) :
              Home(a, incr, LimitedTries, levels, 0)

SpecLimited == Init /\ [][NextLimited]_vars

\* the limits of m that are set are in order
LimitsOrdered(m) ==
    (m.lim_lower # None /\ m.lim_upper # None) => RatLe(m.lim_lower[1], m.lim_upper[1])

\* counts lies within every limit of m that is set
WithinLimits(m) ==
    /\ (m.lim_upper # None => RatLe(m.counts, m.lim_upper[1]))
    /\ (m.lim_lower # None => RatLe(m.lim_lower[1], m.counts))

\* m stands at the limit in the direction of incr
AtLimit(m, incr) ==
    IF incr[1] > 0 THEN m.lim_upper = Some(m.counts) ELSE m.lim_lower = Some(m.counts)

\* C22: from a state with the limits in order and counts within them, any
\* call of increment, go, increment_cal, go_cal or home, completed or not,
\* leaves the limits as they were and counts within them.  A home started
\* at the limit in its direction, the clock running and the home line not
\* changing (the motor does not move), writes max_tries pulse counts of
\* zero, leaves counts as it was and returns False.
C22_LimitsInductive ==
    [][(/\ call'.op \in {"increment", "go", "increment_cal", "go_cal", "home"}
        /\ LimitsOrdered(motor[call'.axis])
        /\ WithinLimits(motor[call'.axis])) =>
          LET m == motor[call'.axis]
              n == motor'[call'.axis]
              pulses == SelectSeq(call'.io, LAMBDA e : e.k = "w" /\ e.reg = m.pulse_reg)
          IN  /\ n.lim_upper = m.lim_upper /\ n.lim_lower = m.lim_lower
              /\ WithinLimits(n)
              /\ (/\ call'.op = "home"
                  /\ m.home_reg \in DevRegs
                  /\ dev[<<"DIO_EF_CLOCK0_ROLL_VALUE">>] # BigOf(0)
                  /\ dev[<<"DIO_EF_CLOCK0_DIVISOR">>] # 0
                  /\ AtLimit(m, call'.args[1])
                  /\ Flips(call'.args[3], call'.args[2]) = {}) =>
                    /\ call'.err = ""
                    /\ call'.ret = Some(FALSE)
                    /\ Len(pulses) = call'.args[2]
                    /\ \A i \in DOMAIN pulses : pulses[i].val = Rat(0)
                    /\ n.counts = m.counts]_vars

\* home(1) at the upper limit: two moves of zero length, then False; and
\* an increment that was cut short at the lower limit
C22_Witness ==
    /\ call.op = "home" /\ call.err = "" /\ call.ret = Some(FALSE)
    /\ call.args[1] = Rat(1)
    /\ Self.lim_upper = Some(Rat(MaxLim)) /\ Self.counts = Rat(MaxLim)
    /\ Self.lim_lower = Some(Rat(-MaxLim))
    /\ Moves = LimitedTries

=============================================================================
